---- MODULE Spec2Model ----
(***************************************************************************)
(* S3ObjectsMerger.merge (src/s3_objects_merger.py) as a state machine.     *)
(*                                                                         *)
(* Strings are sequences of one-character strings, so that startswith,     *)
(* endswith, split and the line handling are computed as the code computes *)
(* them.  The store is one bucket: a function from the keys present to     *)
(* their bodies.  Every store call is one atomic step of an invocation;    *)
(* the local computation between two store calls belongs to the step of    *)
(* the call that precedes it.  list_objects_v2 answers with one page, as   *)
(* the code asks for no further one.                                       *)
(***************************************************************************)
EXTENDS Naturals, Sequences, FiniteSets

VARIABLES
    store,      \* the bucket's contents: key -> body, DOMAIN = keys present
    req,        \* req[p]: the arguments of invocation p's merge call
    pc,         \* pc[p]: where invocation p stands in merge
    client,     \* client[p]: self.__client: "none", "open" or "closed"
    prefix,     \* prefix[p]: self.__objects_to_merge_prefix
    listing,    \* listing[p]: objects_to_merge[CONTENTS], the listed keys in order
    idx,        \* idx[p]: position of the for loop in listing[p]
    new_object, \* new_object[p]: the accumulator of __merge_objects
    total,      \* total[p]: total_objects_to_merge_with_initial_name
    exc,        \* exc[p]: the exception merge ended with, "none" otherwise
    calls,      \* calls[p]: the store calls invocation p issued, in order
    store0      \* the bucket's contents when the merges were called

vars == <<store, req, pc, client, prefix, listing, idx, new_object, total, exc, calls, store0>>

-----------------------------------------------------------------------------
(* Bounds of the model *)

\* at most this many objects are in the bucket when merge is called
MaxObjects == 3

\* list_objects_v2 answers with one page of at most MaxKeys keys (1000 in the
\* store, scaled down here to what MaxObjects can exceed); line 86 asks for
\* one page and never for the next
MaxKeys == 2

-----------------------------------------------------------------------------
(* Module constants, lines 6-15 *)

BUCKET_ROOT == << >>
DOT == "."
LINE_BREAK == "\n"
OBJECTS_SEPARATOR == "/"
SUCCESS_NO_EXTENSION == <<"_", "S", "U", "C", "C", "E", "S", "S">>
SUCCESS_WITH_CRC_EXTENSION == <<".">> \o SUCCESS_NO_EXTENSION \o <<".", "c", "r", "c">>

-----------------------------------------------------------------------------
(* str operations the code uses *)

StartsWith(s, t) == Len(t) <= Len(s) /\ SubSeq(s, 1, Len(t)) = t

EndsWith(s, t) == Len(t) <= Len(s) /\ SubSeq(s, Len(s) - Len(t) + 1, Len(s)) = t

\* s.split(sep)[-1]: what follows the last sep, all of s when it holds none
LastField(s, sep) ==
    LET at == {i \in 1..Len(s) : s[i] = sep}
        last == IF at = {} THEN 0 ELSE CHOOSE i \in at : \A j \in at : j <= i
    IN  SubSeq(s, last + 1, Len(s))

\* s[:-1]
DropLast(s) == IF Len(s) = 0 THEN s ELSE SubSeq(s, 1, Len(s) - 1)

\* object_to_merge[BODY].iter_lines(): the body cut at each line break; a line
\* break that ends the body opens no further line
RECURSIVE IterLines(_)
IterLines(body) ==
    IF body = << >> THEN << >>
    ELSE LET at == {i \in 1..Len(body) : body[i] = LINE_BREAK}
         IN  IF at = {} THEN <<body>>
             ELSE LET first == CHOOSE i \in at : \A j \in at : i <= j
                  IN  <<SubSeq(body, 1, first - 1)>>
                          \o IterLines(SubSeq(body, first + 1, Len(body)))

\* __merge_objects_line_by_line, lines 121-126
RECURSIVE MergeObjectsLineByLine(_, _)
MergeObjectsLineByLine(lines, acc) ==
    IF lines = << >> THEN acc
    ELSE MergeObjectsLineByLine(Tail(lines), acc \o Head(lines) \o <<LINE_BREAK>>)

\* __add_separator_to_prefix_if_absent, lines 80-83
AddSeparatorToPrefixIfAbsent(pfx) ==
    IF pfx # << >> /\ ~EndsWith(pfx, <<OBJECTS_SEPARATOR>>)
    THEN pfx \o <<OBJECTS_SEPARATOR>>
    ELSE pfx

\* __extract_object_extension_from_key, lines 91-92
ExtractObjectExtensionFromKey(key) == LastField(key, DOT)

\* __extract_object_name_from_key, lines 116-118
ExtractObjectNameFromKey(key) == LastField(key, OBJECTS_SEPARATOR)

\* object_to_merge_key, lines 99-100: the key the loop gets and deletes
ObjectToMergeKey(pfx, key) == pfx \o ExtractObjectNameFromKey(key)

\* HasInitialName with the test inverted
HasInitialNameInverted(name, initial) == ~StartsWith(name, initial)

\* line 102: the listed object counts as an object to merge
HasInitialName(name, initial) == StartsWith(name, initial)

\* line 105: the listed object's content goes into the new object
HasExtension(name, ext) == EndsWith(name, ext)

\* SuccessObjects with the leading dot of the checksum name lost
SuccessObjectsNoDot ==
    <<SUCCESS_NO_EXTENSION, SUCCESS_NO_EXTENSION \o <<".", "c", "r", "c">>>>

\* line 133
SuccessObjects == <<SUCCESS_NO_EXTENSION, SUCCESS_WITH_CRC_EXTENSION>>

-----------------------------------------------------------------------------
(* The store *)

\* The store lists keys in the binary order of their characters.
CharCode(c) ==
    CASE c = LINE_BREAK -> 10
      [] c = "."  -> 46
      [] c = "/"  -> 47
      [] c = "C"  -> 67
      [] c = "E"  -> 69
      [] c = "S"  -> 83
      [] c = "U"  -> 85
      [] c = "_"  -> 95
      [] c = "a"  -> 97
      [] c = "b"  -> 98
      [] c = "c"  -> 99
      [] c = "j"  -> 106
      [] c = "o"  -> 111
      [] c = "p"  -> 112
      [] c = "r"  -> 114
      [] c = "t"  -> 116
      [] c = "x"  -> 120

RECURSIVE KeyLess(_, _)
KeyLess(k1, k2) ==
    IF k1 = << >> THEN k2 # << >>
    ELSE IF k2 = << >> THEN FALSE
    ELSE IF Head(k1) = Head(k2) THEN KeyLess(Tail(k1), Tail(k2))
    ELSE CharCode(Head(k1)) < CharCode(Head(k2))

RECURSIVE InKeyOrder(_)
InKeyOrder(keys) ==
    IF keys = {} THEN << >>
    ELSE LET least == CHOOSE k \in keys : \A o \in keys \ {k} : KeyLess(k, o)
         IN  <<least>> \o InKeyOrder(keys \ {least})

\* list_objects_v2(Prefix=pfx): the first page of the keys present that start
\* with pfx, in key order
ListObjectsV2(s, pfx) ==
    LET all == InKeyOrder({k \in DOMAIN s : StartsWith(k, pfx)})
    IN  IF Len(all) <= MaxKeys THEN all ELSE SubSeq(all, 1, MaxKeys)

\* upload_fileobj(Key=key): the object at key is created or replaced
PutObject(s, key, body) ==
    [k \in DOMAIN s \cup {key} |-> IF k = key THEN body ELSE s[k]]

\* delete_object(Key=key): deleting a key that is absent changes nothing
DeleteObject(s, key) == [k \in DOMAIN s \ {key} |-> s[k]]

\* the buckets that exist
Buckets == {"b"}

-----------------------------------------------------------------------------
(* The inputs: the bucket's contents and the arguments of merge *)

Inv == {1, 2}

PrefixP == <<"p">>
PrefixPSep == <<"p", OBJECTS_SEPARATOR>>
KeyRootJT == <<"j", DOT, "t">>
KeySuccess == PrefixPSep \o SUCCESS_NO_EXTENSION
KeyJT == PrefixPSep \o <<"j", DOT, "t">>
KeyJX == PrefixPSep \o <<"j", DOT, "x">>
KeyAJT == PrefixPSep \o <<"a", OBJECTS_SEPARATOR, "j", DOT, "t">>
KeyOT == PrefixPSep \o <<"o", DOT, "t">>
KeyRT == <<"r", DOT, "t">>

\* the keys an object may be stored at when merge is called
InitialKeys == {KeyRootJT, KeySuccess, KeyAJT, KeyJT, KeyJX, KeyOT}

\* "", "a\nb" and "\nb\n"
Bodies == {<< >>, <<"a", LINE_BREAK, "b">>, <<LINE_BREAK, "b", LINE_BREAK>>}

StoresOver(keys) ==
    UNION {[ks -> Bodies] : ks \in {S \in SUBSET keys : Cardinality(S) <= MaxObjects}}

Requests ==
    [bucket_name : {"", "b", "x"},
     new_object_key : {<< >>, KeyOT, KeyJX},
     initial_name : {<<"j">>, <<"_">>},
     objects_to_merge_prefix : {BUCKET_ROOT, PrefixP, PrefixPSep},
     success_files_deletion : BOOLEAN]

\* two merges of the objects j* under p/ of the same bucket
ConcurrentRequests ==
    [bucket_name : {"", "b", "x"},
     new_object_key : {<< >>, KeyOT, KeyRT},
     initial_name : {<<"j">>},
     objects_to_merge_prefix : {PrefixP},
     success_files_deletion : {TRUE}]

Call(op, key, site, resp, present, body) ==
    [op |-> op, key |-> key, site |-> site, resp |-> resp, present |-> present,
     body |-> body]

\* the state of the S3ObjectsMerger objects after __init__, lines 20-25, with
\* the arguments their merge will be called with
InitMergers(started) ==
    /\ pc = [p \in Inv |-> IF p \in started THEN "start" ELSE "idle"]
    /\ client = [p \in Inv |-> "none"]
    /\ prefix = [p \in Inv |-> << >>]
    /\ listing = [p \in Inv |-> << >>]
    /\ idx = [p \in Inv |-> 0]
    /\ new_object = [p \in Inv |-> << >>]
    /\ total = [p \in Inv |-> 0]
    /\ exc = [p \in Inv |-> "none"]
    /\ calls = [p \in Inv |-> << >>]

\* one merge call
Init ==
    /\ store \in StoresOver(InitialKeys)
    /\ store0 = store
    /\ \E r \in Requests : req = [p \in Inv |-> r]
    /\ InitMergers({1})

\* two merge calls running at once
ConcurrentInit ==
    /\ store \in StoresOver({KeyJT, KeyJX})
    /\ store0 = store
    /\ req \in [Inv -> ConcurrentRequests]
    /\ InitMergers(Inv)

-----------------------------------------------------------------------------
(* merge, lines 27-51, one action per store call *)

\* an exception leaves merge: nothing after the raising statement runs
Raise(p, e) ==
    /\ pc' = [pc EXCEPT ![p] = "raised"]
    /\ exc' = [exc EXCEPT ![p] = e]

Issue(p, call) == calls' = [calls EXCEPT ![p] = Append(@, call)]

\* Begin behind a lock: a merge starts only while no other merge is running
BeginLocked(p) ==
    /\ \A q \in Inv \ {p} : pc[q] \in {"idle", "start", "done", "raised"}
    /\ pc[p] = "start"
    /\ client' = [client EXCEPT ![p] = "open"]
    /\ IF req[p].bucket_name = ""
       THEN Raise(p, "ValueError: Bucket not informed!")
       ELSE pc' = [pc EXCEPT ![p] = "head_bucket"] /\ UNCHANGED exc
    /\ UNCHANGED <<store, store0, req, prefix, listing, idx, new_object, total, calls>>

\* lines 34-36, 53-54, 59-62: the client is opened and the bucket name checked
Begin(p) ==
    /\ pc[p] = "start"
    /\ client' = [client EXCEPT ![p] = "open"]
    /\ IF req[p].bucket_name = ""
       THEN Raise(p, "ValueError: Bucket not informed!")
       ELSE pc' = [pc EXCEPT ![p] = "head_bucket"] /\ UNCHANGED exc
    /\ UNCHANGED <<store, store0, req, prefix, listing, idx, new_object, total, calls>>

\* what head_bucket may answer: 200 or 404 by the bucket's existence, or a
\* ClientError of another code (403), or an error that is no ClientError
HeadBucketResponses(bucket) ==
    (IF bucket \in Buckets THEN {"200"} ELSE {"404"}) \cup {"403", "err"}

\* what another call may answer: 200, an error, or 404 when the bucket or
\* (for get_object) the key is absent
Responses(found) == (IF found THEN {"200"} ELSE {"404"}) \cup {"err"}

\* lines 55, 64-71 (head_bucket), then 37, 73-78 (the key is checked) and
\* 39, 80-83 (the prefix is normalised)
CheckIfBucketExists(p) ==
    /\ pc[p] = "head_bucket"
    /\ \E resp \in HeadBucketResponses(req[p].bucket_name) :
        /\ Issue(p, Call("head_bucket", << >>, "validate_bucket", resp, FALSE, << >>))
        /\ IF resp = "404"
           THEN Raise(p, "BucketNotFoundException") /\ UNCHANGED prefix
           ELSE IF resp = "err"
           THEN Raise(p, resp) /\ UNCHANGED prefix
           ELSE IF req[p].new_object_key = << >>
           THEN Raise(p, "ValueError: Object key not informed!") /\ UNCHANGED prefix
           ELSE /\ prefix' = [prefix EXCEPT ![p] =
                        AddSeparatorToPrefixIfAbsent(req[p].objects_to_merge_prefix)]
                /\ pc' = [pc EXCEPT ![p] = "list"]
                /\ UNCHANGED exc
    /\ UNCHANGED <<store, store0, req, client, listing, idx, new_object, total>>

\* ValidateObjectsToMergePrefix with the success objects deleted before the
\* listing is taken, so that they are not listed
ValidateObjectsToMergePrefixAfterCleanup(p) ==
    /\ pc[p] = "list"
    /\ \E resp \in Responses(req[p].bucket_name \in Buckets) :
        LET cleaned == DeleteObject(DeleteObject(store,
                            prefix[p] \o SUCCESS_NO_EXTENSION),
                            prefix[p] \o SUCCESS_WITH_CRC_EXTENSION)
        IN
        /\ calls' = [calls EXCEPT ![p] = @ \o
                <<Call("delete_object", prefix[p] \o SUCCESS_NO_EXTENSION,
                       "delete_success", "200",
                       (prefix[p] \o SUCCESS_NO_EXTENSION) \in DOMAIN store, << >>),
                  Call("delete_object", prefix[p] \o SUCCESS_WITH_CRC_EXTENSION,
                       "delete_success", "200",
                       (prefix[p] \o SUCCESS_WITH_CRC_EXTENSION) \in DOMAIN store, << >>),
                  Call("list_objects_v2", prefix[p], "validate_prefix", resp, FALSE, << >>)>>]
        /\ store' = cleaned
        /\ IF resp # "200"
           THEN Raise(p, resp) /\ UNCHANGED <<listing, idx, new_object, total>>
           ELSE LET objects == ListObjectsV2(cleaned, prefix[p])
                IN  IF objects = << >>
                    THEN /\ Raise(p, "ObjectNotFoundException: Prefix not found!")
                         /\ UNCHANGED <<listing, idx, new_object, total>>
                    ELSE /\ listing' = [listing EXCEPT ![p] = objects]
                         /\ idx' = [idx EXCEPT ![p] = 1]
                         /\ new_object' = [new_object EXCEPT ![p] = << >>]
                         /\ total' = [total EXCEPT ![p] = 0]
                         /\ pc' = [pc EXCEPT ![p] = "loop"]
                         /\ UNCHANGED exc
    /\ UNCHANGED <<store0, req, client, prefix>>

\* lines 40, 85-89: the listing, PrefixNotFound when it is empty; then 42, 95-96
ValidateObjectsToMergePrefix(p) ==
    /\ pc[p] = "list"
    /\ \E resp \in Responses(req[p].bucket_name \in Buckets) :
        /\ Issue(p, Call("list_objects_v2", prefix[p], "validate_prefix", resp, FALSE, << >>))
        /\ IF resp # "200"
           THEN Raise(p, resp) /\ UNCHANGED <<listing, idx, new_object, total>>
           ELSE LET objects == ListObjectsV2(store, prefix[p])
                IN  IF objects = << >>
                    THEN /\ Raise(p, "ObjectNotFoundException: Prefix not found!")
                         /\ UNCHANGED <<listing, idx, new_object, total>>
                    ELSE /\ listing' = [listing EXCEPT ![p] = objects]
                         /\ idx' = [idx EXCEPT ![p] = 1]
                         /\ new_object' = [new_object EXCEPT ![p] = << >>]
                         /\ total' = [total EXCEPT ![p] = 0]
                         /\ pc' = [pc EXCEPT ![p] = "loop"]
                         /\ UNCHANGED exc
    /\ UNCHANGED <<store, store0, req, client, prefix>>

\* LoopFinished one object early: the last listed object is never visited
LoopFinishedEarly(i, objects) == i >= Len(objects)

\* line 98: the for loop has gone through objects_to_merge[CONTENTS]
LoopFinished(i, objects) == i > Len(objects)

\* lines 99-100 for the listed object the loop stands at
ObjectName(p) == ExtractObjectNameFromKey(listing[p][idx[p]])
ObjectKey(p) == ObjectToMergeKey(prefix[p], listing[p][idx[p]])
NewObjectExtension(p) == ExtractObjectExtensionFromKey(req[p].new_object_key)

\* lines 98-102: a listed object without the initial name is passed over
SkipObject(p) ==
    /\ pc[p] = "loop"
    /\ ~LoopFinished(idx[p], listing[p])
    /\ ~HasInitialName(ObjectName(p), req[p].initial_name)
    /\ idx' = [idx EXCEPT ![p] = @ + 1]
    /\ UNCHANGED <<store, store0, req, pc, client, prefix, listing, new_object, total,
                   exc, calls>>

\* lines 102-107: an object with the initial name and the extension is
\* downloaded and its lines appended to new_object
GetObjectToMerge(p) ==
    /\ pc[p] = "loop"
    /\ ~LoopFinished(idx[p], listing[p])
    /\ HasInitialName(ObjectName(p), req[p].initial_name)
    /\ HasExtension(ObjectName(p), NewObjectExtension(p))
    /\ total' = [total EXCEPT ![p] = @ + 1]
    /\ \E resp \in Responses(ObjectKey(p) \in DOMAIN store) :
        /\ Issue(p, Call("get_object", ObjectKey(p), "merge_objects", resp,
                         ObjectKey(p) \in DOMAIN store, << >>))
        /\ IF resp # "200"
           THEN Raise(p, resp) /\ UNCHANGED new_object
           ELSE /\ new_object' = [new_object EXCEPT ![p] =
                        MergeObjectsLineByLine(IterLines(store[ObjectKey(p)]), @)]
                /\ pc' = [pc EXCEPT ![p] = "delete"]
                /\ UNCHANGED exc
    /\ UNCHANGED <<store, store0, req, client, prefix, listing, idx>>

\* line 108: an object with the initial name is deleted, merged or not
DeleteObjectToMerge(p) ==
    /\ \/ pc[p] = "delete" /\ UNCHANGED total
       \/ /\ pc[p] = "loop"
          /\ ~LoopFinished(idx[p], listing[p])
          /\ HasInitialName(ObjectName(p), req[p].initial_name)
          /\ ~HasExtension(ObjectName(p), NewObjectExtension(p))
          /\ total' = [total EXCEPT ![p] = @ + 1]
    /\ \E resp \in Responses(TRUE) :
        /\ Issue(p, Call("delete_object", ObjectKey(p), "merge_objects", resp,
                         ObjectKey(p) \in DOMAIN store, << >>))
        /\ IF resp # "200"
           THEN Raise(p, resp) /\ UNCHANGED <<store, idx>>
           ELSE /\ store' = DeleteObject(store, ObjectKey(p))
                /\ idx' = [idx EXCEPT ![p] = @ + 1]
                /\ pc' = [pc EXCEPT ![p] = "loop"]
                /\ UNCHANGED exc
    /\ UNCHANGED <<store0, req, client, prefix, listing, new_object>>

\* lines 110-114: after the loop, NoObjectsToMerge when none had the initial name
EndOfLoop(p) ==
    /\ pc[p] = "loop"
    /\ LoopFinished(idx[p], listing[p])
    /\ IF total[p] = 0
       THEN Raise(p, "ObjectNotFoundException: Objects to merge not found")
       ELSE pc' = [pc EXCEPT ![p] = "upload"] /\ UNCHANGED exc
    /\ UNCHANGED <<store, store0, req, client, prefix, listing, idx, new_object, total,
                   calls>>

\* lines 48-51 once the call at hand was the last one: the client is closed
Return(p) ==
    /\ client' = [client EXCEPT ![p] = "closed"]
    /\ pc' = [pc EXCEPT ![p] = "done"]

\* where merge stands before the n-th call of __delete_success_objects
SuccessPc == <<"delete_success_1", "delete_success_2">>

\* lines 45-46, 128-130: new_object without its last character is uploaded;
\* then line 48
UploadObjectToBucket(p) ==
    /\ pc[p] = "upload"
    /\ \E resp \in Responses(TRUE) :
        /\ Issue(p, Call("upload_fileobj", req[p].new_object_key, "upload", resp,
                         req[p].new_object_key \in DOMAIN store,
                         DropLast(new_object[p])))
        /\ IF resp # "200"
           THEN Raise(p, resp) /\ UNCHANGED <<store, client>>
           ELSE /\ store' = PutObject(store, req[p].new_object_key,
                                      DropLast(new_object[p]))
                /\ UNCHANGED exc
                /\ IF req[p].success_files_deletion
                   THEN pc' = [pc EXCEPT ![p] = SuccessPc[1]] /\ UNCHANGED client
                   ELSE Return(p)
    /\ UNCHANGED <<store0, req, prefix, listing, idx, new_object, total>>

\* lines 132-135: one of the two success objects is deleted; then line 51
DeleteSuccessObjects(p) ==
    /\ \E n \in DOMAIN SuccessPc :
        /\ pc[p] = SuccessPc[n]
        /\ LET key == prefix[p] \o SuccessObjects[n]
           IN  \E resp \in Responses(TRUE) :
                /\ Issue(p, Call("delete_object", key, "delete_success", resp,
                                 key \in DOMAIN store, << >>))
                /\ IF resp # "200"
                   THEN Raise(p, resp) /\ UNCHANGED <<store, client>>
                   ELSE /\ store' = DeleteObject(store, key)
                        /\ UNCHANGED exc
                        /\ IF n = Len(SuccessObjects)
                           THEN Return(p)
                           ELSE pc' = [pc EXCEPT ![p] = SuccessPc[n + 1]]
                                /\ UNCHANGED client
    /\ UNCHANGED <<store0, req, prefix, listing, idx, new_object, total>>

\* one step of invocation p
Step(p) ==
    \/ Begin(p)
    \/ CheckIfBucketExists(p)
    \/ ValidateObjectsToMergePrefix(p)
    \/ SkipObject(p)
    \/ GetObjectToMerge(p)
    \/ DeleteObjectToMerge(p)
    \/ EndOfLoop(p)
    \/ UploadObjectToBucket(p)
    \/ DeleteSuccessObjects(p)

Next == \E p \in Inv : Step(p)

Spec == Init /\ [][Next]_vars

ConcurrentSpec == ConcurrentInit /\ [][Next]_vars

-----------------------------------------------------------------------------
(* Vocabulary of the properties *)

Terminated(p) == pc[p] \in {"done", "raised"}

ValueErrors == {"ValueError: Bucket not informed!", "ValueError: Object key not informed!"}
PrefixNotFound == "ObjectNotFoundException: Prefix not found!"
NoObjectsToMerge == "ObjectNotFoundException: Objects to merge not found"

\* the portion of a key after its last separator
ShortName(key) == LastField(key, OBJECTS_SEPARATOR)

\* the listed object matches the initial-name pattern of invocation p
MatchesPattern(p, key) == StartsWith(ShortName(key), req[p].initial_name)

\* ... and the extension of the target key
MatchesExtension(p, key) ==
    EndsWith(ShortName(key), LastField(req[p].new_object_key, DOT))

Mutations == {"delete_object", "upload_fileobj"}

\* the positions in calls[p] of the calls that satisfy Test
CallsWhere(p, Test(_)) == {i \in DOMAIN calls[p] : Test(calls[p][i])}

IsUpload(c) == c.op = "upload_fileobj"
IsMutation(c) == c.op \in Mutations
IsLoopCall(c) == c.site = "merge_objects"
IsSuccessCall(c) == c.site = "delete_success"
IsDone(c) == c.op = "delete_object" /\ c.resp = "200"

-----------------------------------------------------------------------------
(* C1: when merge is called with an empty bucket name or an empty target key
   it ends with ValueError and has issued no store call at all. *)
C1_InvalidArgumentBeforeAnyStoreCall ==
    \A p \in Inv :
        (Terminated(p) /\ (req[p].bucket_name = "" \/ req[p].new_object_key = << >>))
            => exc[p] \in ValueErrors /\ calls[p] = << >>

(* C2: a store call that fails is the last call of the merge and its error
   is what merge ends with, unchanged; only a 404 answer to head_bucket is
   turned into BucketNotFoundException. *)
C2_StoreFailurePropagatesUnmodified ==
    \A p \in Inv : \A i \in DOMAIN calls[p] :
        calls[p][i].resp # "200"
            => /\ i = Len(calls[p])
               /\ pc[p] = "raised"
               /\ exc[p] = IF calls[p][i].op = "head_bucket" /\ calls[p][i].resp = "404"
                           THEN "BucketNotFoundException"
                           ELSE calls[p][i].resp

(* C3: a merge that has ended, by returning or by any exception, has closed
   the client it opened. *)
C3_ClientClosedOnEveryExit ==
    \A p \in Inv : Terminated(p) => client[p] = "closed"

(* C4: for every listed object the loop has gone past whose short name starts
   with the initial-name pattern, the loop has issued a delete for that
   object's own key. *)
C4_QualifyingObjectDeletedByOwnKey ==
    \A p \in Inv : \A i \in DOMAIN listing[p] :
        (i < idx[p] /\ MatchesPattern(p, listing[p][i]))
            => \E n \in CallsWhere(p, IsLoopCall) :
                /\ calls[p][n].op = "delete_object"
                /\ calls[p][n].key = listing[p][i]

-----------------------------------------------------------------------------
\* lines joined by single line breaks, none after the last
RECURSIVE JoinLines(_)
JoinLines(lines) ==
    IF lines = << >> THEN << >>
    ELSE IF Len(lines) = 1 THEN lines[1]
    ELSE lines[1] \o <<LINE_BREAK>> \o JoinLines(Tail(lines))

\* the lines, in listing order, of the listed objects that match both the
\* pattern and the extension, as the objects were when merge was called
RECURSIVE LinesToMerge(_, _)
LinesToMerge(p, keys) ==
    IF keys = << >> THEN << >>
    ELSE (IF MatchesPattern(p, Head(keys)) /\ MatchesExtension(p, Head(keys))
          THEN IterLines(store0[Head(keys)])
          ELSE << >>) \o LinesToMerge(p, Tail(keys))

(* C5: when a merge has returned, the object at the target key is exactly the
   lines of the listed objects matching pattern and extension, in listing
   order, joined by single line breaks with no trailing one; a sole input
   with the lines a, b gives "a\nb". *)
C5_UploadedObjectIsJoinedLines ==
    \A p \in Inv :
        pc[p] = "done"
            => /\ req[p].new_object_key \in DOMAIN store
               /\ store[req[p].new_object_key] = JoinLines(LinesToMerge(p, listing[p]))
               /\ (LinesToMerge(p, listing[p]) = <<<<"a">>, <<"b">>>>
                      => store[req[p].new_object_key] = <<"a", LINE_BREAK, "b">>)

(* C6: a merge that ended with ValueError, BucketNotFoundException or
   PrefixNotFound has issued no delete and no upload, and the bucket holds
   what it held when merge was called. *)
C6_NoMutationBeforeTheLoop ==
    \A p \in Inv :
        exc[p] \in ValueErrors \cup {"BucketNotFoundException", PrefixNotFound}
            => CallsWhere(p, IsMutation) = {} /\ store = store0

\* the bucket holds objects, none under the prefix: PrefixNotFound
C6_Witness ==
    /\ exc[1] = PrefixNotFound
    /\ store0 # << >>
    /\ Len(calls[1]) = 2

(* C7: a listed object whose short name does not start with the pattern is
   neither downloaded nor deleted by the loop; when no listed object matches,
   merge ends with NoObjectsToMerge after the whole listing, having issued no
   get, no delete and no upload, the bucket unchanged. *)
C7_NonMatchingObjectsUntouched ==
    \A p \in Inv :
        /\ \A i \in DOMAIN listing[p] :
            ~MatchesPattern(p, listing[p][i])
                => \A n \in CallsWhere(p, IsLoopCall) : calls[p][n].key # listing[p][i]
        /\ (Terminated(p) /\ listing[p] # << >>
                /\ \A i \in DOMAIN listing[p] : ~MatchesPattern(p, listing[p][i]))
            => /\ exc[p] = NoObjectsToMerge
               /\ idx[p] = Len(listing[p]) + 1
               /\ \A n \in DOMAIN calls[p] :
                    calls[p][n].op \in {"head_bucket", "list_objects_v2"}
               /\ store = store0

\* one listed object matched and was deleted, another did not and is still there
C7_Witness ==
    /\ pc[1] = "done"
    /\ \E i, j \in DOMAIN listing[1] :
        /\ MatchesPattern(1, listing[1][i])
        /\ listing[1][i] \notin DOMAIN store
        /\ ~MatchesPattern(1, listing[1][j])
        /\ listing[1][j] \in DOMAIN store
        /\ store[listing[1][j]] = store0[listing[1][j]]

-----------------------------------------------------------------------------
\* the two marker keys under the normalized prefix of invocation p
SuccessKey(p) == prefix[p] \o <<"_", "S", "U", "C", "C", "E", "S", "S">>
SuccessCrcKey(p) ==
    prefix[p] \o <<".", "_", "S", "U", "C", "C", "E", "S", "S", ".", "c", "r", "c">>

\* the calls invocation p issued after its upload, none when it has not uploaded
CallsAfterUpload(p) ==
    LET up == CallsWhere(p, IsUpload)
    IN  IF up = {} THEN << >>
        ELSE SubSeq(calls[p], (CHOOSE u \in up : TRUE) + 1, Len(calls[p]))

KeysOf(cs) == [n \in DOMAIN cs |-> cs[n].key]

(* C8, as claimed: with deleteSuccessFiles a merge that returns has issued
   after the upload exactly the deletes of <prefix>_SUCCESS and
   <prefix>._SUCCESS.crc; without it no delete of either key is issued at
   any point of the merge (stated here for the merges whose store calls all
   succeed and for the marker objects that exist, which is all it takes to
   refute it). *)
C8_NoMarkerDeleteWhenDisabled ==
    \A p \in Inv :
        /\ (req[p].success_files_deletion /\ pc[p] = "done")
            => /\ KeysOf(CallsAfterUpload(p)) = <<SuccessKey(p), SuccessCrcKey(p)>>
               /\ \A n \in DOMAIN CallsAfterUpload(p) :
                    CallsAfterUpload(p)[n].op = "delete_object"
        /\ (~req[p].success_files_deletion
                /\ \A n \in DOMAIN calls[p] : calls[p][n].resp = "200")
            => \A n \in DOMAIN calls[p] :
                (calls[p][n].op = "delete_object" /\ calls[p][n].present)
                    => calls[p][n].key \notin {SuccessKey(p), SuccessCrcKey(p)}

(* C8, amended: with deleteSuccessFiles a merge that returns has issued after
   the upload exactly the deletes of <prefix>_SUCCESS and
   <prefix>._SUCCESS.crc, in that order, present or not; without it no call
   follows the upload, and a delete of either key is issued only by the
   merge loop, for a listed object of that name that matches the pattern. *)
C8_MarkerDeletesOnlyAfterUploadWhenEnabled ==
    \A p \in Inv :
        /\ \A n \in DOMAIN CallsAfterUpload(p) :
            /\ req[p].success_files_deletion
            /\ n <= 2
            /\ CallsAfterUpload(p)[n].op = "delete_object"
            /\ CallsAfterUpload(p)[n].key = <<SuccessKey(p), SuccessCrcKey(p)>>[n]
        /\ (req[p].success_files_deletion /\ pc[p] = "done")
            => Len(CallsAfterUpload(p)) = 2
        /\ (~req[p].success_files_deletion /\ pc[p] = "done")
            => CallsAfterUpload(p) = << >> /\ CallsWhere(p, IsUpload) # {}
        /\ ~req[p].success_files_deletion
            => \A n \in DOMAIN calls[p] :
                (calls[p][n].op = "delete_object"
                    /\ calls[p][n].key \in {SuccessKey(p), SuccessCrcKey(p)})
                    => /\ CallsWhere(p, IsUpload) \cap 1..n = {}
                       /\ \E i \in DOMAIN listing[p] :
                            /\ ShortName(listing[p][i]) = ShortName(calls[p][n].key)
                            /\ MatchesPattern(p, listing[p][i])

\* deleteSuccessFiles is off and the loop deleted <prefix>_SUCCESS, an object
\* that matched the pattern
C8_Witness ==
    /\ ~req[1].success_files_deletion
    /\ pc[1] = "done"
    /\ \E n \in CallsWhere(1, IsLoopCall) :
        /\ calls[1][n].op = "delete_object"
        /\ calls[1][n].key = SuccessKey(1)
        /\ calls[1][n].present

-----------------------------------------------------------------------------
\* the keys invocation p has deleted
DeletedKeys(p) == {calls[p][n].key : n \in CallsWhere(p, IsDone)}

(* C9: merge uploads at most once, and only when the loop has gone through the
   whole listing, every get and delete of the loop before the upload and every
   marker delete after it; a merge that ends with an exception before the
   upload leaves the objects it deleted deleted and has uploaded nothing. *)
C9_UploadOnceAfterTheWholeLoop ==
    \A p \in Inv :
        /\ Cardinality(CallsWhere(p, IsUpload)) <= 1
        /\ \A u \in CallsWhere(p, IsUpload) :
            /\ idx[p] = Len(listing[p]) + 1
            /\ \A n \in CallsWhere(p, IsLoopCall) : n < u
            /\ \A n \in CallsWhere(p, IsSuccessCall) : u < n
        /\ (CallsWhere(p, IsSuccessCall) # {}) => (CallsWhere(p, IsUpload) # {})
        /\ (pc[p] = "raised" /\ CallsWhere(p, IsUpload) = {})
            => store = [k \in DOMAIN store0 \ DeletedKeys(p) |-> store0[k]]

\* a store call failed in the loop after an input was deleted: the input is
\* gone and nothing was uploaded
C9_Witness ==
    /\ pc[1] = "raised"
    /\ exc[1] = "err"
    /\ calls[1][Len(calls[1])].site = "merge_objects"
    /\ DeletedKeys(1) \cap DOMAIN store0 # {}
    /\ CallsWhere(1, IsUpload) = {}
    /\ idx[1] <= Len(listing[1])

-----------------------------------------------------------------------------
(* C10: nothing makes a merge wait for another one, and the loop works from
   the listing it took, whatever has become of the listed objects since: an
   invocation that has not ended can always take its next step, and every get
   and delete of its loop is for a key derived from its own listing. *)
C10_NoLockBetweenMerges ==
    \A p \in Inv :
        /\ pc[p] \notin {"idle", "done", "raised"} => ENABLED Step(p)
        /\ \A n \in CallsWhere(p, IsLoopCall) :
            \E i \in DOMAIN listing[p] :
                calls[p][n].key = prefix[p] \o ShortName(listing[p][i])

\* the race: both merges listed and downloaded the same object, one deleted
\* it, the other then issued its delete for the key already gone, and both
\* returned having uploaded the object's lines to their different target keys
C10_Witness ==
    \E p, q \in Inv :
        /\ p # q
        /\ pc[p] = "done" /\ pc[q] = "done"
        /\ req[p].new_object_key # req[q].new_object_key
        /\ \E k \in DOMAIN store0 :
            /\ \E i \in DOMAIN listing[p] : listing[p][i] = k
            /\ \E i \in DOMAIN listing[q] : listing[q][i] = k
            /\ \E n \in CallsWhere(q, IsDone) :
                calls[q][n].key = k /\ calls[q][n].present
            /\ \E n \in CallsWhere(p, IsDone) :
                calls[p][n].key = k /\ ~calls[p][n].present
            /\ store0[k] # << >>
            /\ store[req[p].new_object_key] = JoinLines(IterLines(store0[k]))
            /\ store[req[q].new_object_key] = JoinLines(IterLines(store0[k]))

====
